---- MODULE Spec2Model ----
(***************************************************************************)
(* StringMatchRetrieverAgent (parlai/agents/ir_baseline/ir_retrieve.py):   *)
(* a master agent and its worker copies ingest facts, the workers ship     *)
(* their vocabulary and frequency triples to the master at shutdown, the   *)
(* master merges them, and every agent answers TF-IDF retrieval queries.   *)
(*                                                                         *)
(* Encoding conventions                                                    *)
(*  - a text is the sequence of its raw words; tokenize lower-cases them   *)
(*    and drops the stop words (ngrams(n=1, uncased=True, filter_fn)).     *)
(*  - all_tokens is the Python dict as a TLA+ function token -> id.        *)
(*  - freq_token / freq_fact_id / freq_freq are three parallel lists, only *)
(*    ever appended together in new_freq; freq is the list of the rows     *)
(*    <<freq_token[i], freq_fact_id[i], freq_freq[i]>>.                    *)
(*  - hasattr/del of the lazily created attributes is the set attrs.       *)
(*  - np.log is a fixed-point table: LnTable[n] = round(100 * ln n).       *)
(*  - a message on a channel is the sequence of the tuple's elements; the  *)
(*    string END_OF_DATA travels as the one-element sequence holding it.   *)
(***************************************************************************)
EXTENDS Integers, Sequences, FiniteSets, TLC

\* ------------------------------------------------------------------ bounds
NumWorkers == 2
MaxFacts == 3
MaxResults == 2
MaxSent == 4

Master == 0
Workers == 1..NumWorkers
Agents == 0..NumWorkers
NoOne == 0 - 1

\* the words of the modelled texts, in the lexicographic order np.unique
\* sorts them into, and the texts and queries the host feeds in
TokenOrder == <<"a", "b", "c", "z">>
StopWords == {"the"}
Texts == {<<"A">>, <<"the", "b", "b">>, <<"c">>}
Queries == {<<"A", "b">>, <<"b", "c", "c">>, <<"z", "the">>}

END_OF_DATA == "EOD"

\* ------------------------------------------------------------- pure helpers
Lower(w) == IF w = "A" THEN "a" ELSE w

\* tokenize (line 265): normalize, tokenize, uncased unigrams, filter_ngram
tokenize(query) ==
    LET lowered == [i \in DOMAIN query |-> Lower(query[i])]
    IN  SelectSeq(lowered, LAMBDA w : w \notin StopWords)

SeqRange(q) == {q[i] : i \in DOMAIN q}

Count(seq, x) == Cardinality({i \in DOMAIN seq : seq[i] = x})

\* np.unique(tokens, return_counts=True) on strings: sorted distinct values
unique(seq) ==
    LET values == SelectSeq(TokenOrder, LAMBDA t : Count(seq, t) > 0)
    IN  [values |-> values,
         counts |-> [i \in DOMAIN values |-> Count(seq, values[i])]]

RECURSIVE SortedIds(_)
SortedIds(S) ==
    IF S = {} THEN <<>>
    ELSE LET m == CHOOSE x \in S : \A y \in S : x <= y
         IN  <<m>> \o SortedIds(S \ {m})

\* np.unique(wids, return_counts=True) on integers
unique_ids(wids) ==
    LET values == SortedIds({wids[i] : i \in DOMAIN wids})
    IN  [values |-> values,
         counts |-> [i \in DOMAIN values |-> Count(wids, values[i])]]

\* round(100 * ln n) for n = 1..17
LnTable == <<0, 69, 110, 139, 161, 179, 195, 208, 220, 230, 240, 248, 256,
             264, 271, 277, 283>>

log1p(c) == LnTable[c + 1]

\* the logarithm of lines 129 and 306 without the clamping that follows it
raw_idf(N, Ns) == LnTable[2 * (N - Ns) + 1] - LnTable[2 * Ns + 1]

\* np.log((N - Ns + 0.5) / (Ns + 0.5)), then idfs[idfs < 0] = 0
clamped_idf(N, Ns) ==
    LET raw == LnTable[2 * (N - Ns) + 1] - LnTable[2 * Ns + 1]
    IN  IF raw < 0 THEN 0 ELSE raw

\* token2id taking the length of the dict after the new entry is in it
token2id_after(all, token, is_int) ==
    IF is_int THEN [all |-> all, id |-> token]
    ELSE IF token \notin DOMAIN all
         THEN [all |-> all @@ (token :> Cardinality(DOMAIN all) + 1),
               id  |-> Cardinality(DOMAIN all) + 1]
         ELSE [all |-> all, id |-> all[token]]

\* token2id (line 313): an int passes through, a string is interned
token2id(all, token, is_int) ==
    IF is_int THEN [all |-> all, id |-> token]
    ELSE IF token \notin DOMAIN all
         THEN [all |-> all @@ (token :> Cardinality(DOMAIN all)),
               id  |-> Cardinality(DOMAIN all)]
         ELSE [all |-> all, id |-> all[token]]

\* new_freq (line 278) on the pair (all_tokens, freq)
new_freq(st, token, is_int, fact, n) ==
    LET r == token2id(st.all, token, is_int)
    IN  [all |-> r.all, freq |-> Append(st.freq, <<r.id, fact, n>>)]

\* the loop of process_act (lines 272-276) over the distinct tokens of a fact
RECURSIVE record_tokens(_, _, _, _)
record_tokens(st, u, ind, fact) ==
    IF ind > Len(u.values) THEN st
    ELSE record_tokens(new_freq(st, u.values[ind], FALSE, fact, u.counts[ind]),
                       u, ind + 1, fact)

\* dict.items() in insertion order, which is the order of the ids
items(all) ==
    [i \in 1..Cardinality(DOMAIN all) |->
        LET t == CHOOSE x \in DOMAIN all : all[x] = i - 1 IN <<t, all[t]>>]

\* ------------------------------------------------------------ agent state
VARIABLES
    fact_id,        \* shared Value('i', 0): the fact-id counter
    fact_id_lock,   \* fact_id.get_lock(): the agent holding it, or NoOne
    db_lock,        \* the shared Lock(): the agent holding it, or NoOne
    db,             \* the document table: fact_id -> fact
    all_tokens,     \* per agent: token -> id
    freq,           \* per agent: the rows of freq_token, freq_fact_id, freq_freq
    cnt,            \* per agent: number of ingested observations
    attrs,          \* per agent: which lazily created attributes exist
    count_matrix,   \* per agent: cached count matrix
    doc_freqs,      \* per agent: cached document frequencies
    tfidfs,         \* per agent: cached TF-IDF matrix
    num_docs,       \* per agent: cached number of facts
    num_tokens,     \* per agent: cached number of tokens
    tie_low,        \* whether the sort routines put the lower position first among equal scores
    raised,         \* per agent: the exception its last call ended with, or "none"
    last,           \* per agent: the last retrieve call since the last act, and what it yielded
    token_file,     \* the saved vocabulary: <<>> or <<all_tokens>>
    retriever_file, \* the saved count matrix: <<>> or <<matrix>>
    returned,       \* the ids new_fact_id has returned, in the order of the returns
    pc,             \* per agent: where it stands in the call it is executing
    cur_id,         \* per agent: new_fact_id's local cur_id
    fact,           \* per agent: the fact process_act is working on
    comm_queues,    \* per worker: the messages on its Queue, oldest first
    sent,           \* per worker: every message ever put on its Queue
    outbox,         \* per worker: the messages its shutdown has still to put
    process_data_finished, \* master: per queue, whether END_OF_DATA was read
    finished_cnt,   \* master: number of queues that have ended
    child_token_map,\* master: per queue, local token id -> global token id
    queue_ind,      \* master: the queue the for loop of process_child_data is at
    num_queues,     \* master: len(self.comm_queues), the number of share() calls
    merge_base      \* master: length of its own triple buffer when the merge began

CacheAttrs == {"tfidfs", "count_matrix", "doc_freqs", "num_docs", "num_tokens"}

NoMatrix == [shape |-> <<0, 0>>, data |-> <<>>]
NoVector == [dim |-> 1, v |-> <<>>]

\* the object of agent a, as the record of its attributes
Self(a) ==
    [all_tokens |-> all_tokens[a], freq |-> freq[a], cnt |-> cnt[a],
     attrs |-> attrs[a], count_matrix |-> count_matrix[a],
     doc_freqs |-> doc_freqs[a], tfidfs |-> tfidfs[a],
     num_docs |-> num_docs[a], num_tokens |-> num_tokens[a]]

\* agent a's object becomes s
Store(a, s) ==
    /\ all_tokens' = [all_tokens EXCEPT ![a] = s.all_tokens]
    /\ freq' = [freq EXCEPT ![a] = s.freq]
    /\ cnt' = [cnt EXCEPT ![a] = s.cnt]
    /\ attrs' = [attrs EXCEPT ![a] = s.attrs]
    /\ count_matrix' = [count_matrix EXCEPT ![a] = s.count_matrix]
    /\ doc_freqs' = [doc_freqs EXCEPT ![a] = s.doc_freqs]
    /\ tfidfs' = [tfidfs EXCEPT ![a] = s.tfidfs]
    /\ num_docs' = [num_docs EXCEPT ![a] = s.num_docs]
    /\ num_tokens' = [num_tokens EXCEPT ![a] = s.num_tokens]

\* ------------------------------------------------- count matrix and TF-IDF
\* get_num_docs that reads the counter without keeping the value
get_num_docs_uncached(self, fid) ==
    IF "num_docs" \notin self.attrs
    THEN [self EXCEPT !.num_docs = fid]
    ELSE self

\* get_num_docs (line 108)
get_num_docs(self, fid) ==
    IF "num_docs" \notin self.attrs
    THEN [self EXCEPT !.num_docs = fid, !.attrs = @ \cup {"num_docs"}]
    ELSE self

\* get_num_tokens (line 113)
get_num_tokens(self) ==
    IF "num_tokens" \notin self.attrs
    THEN [self EXCEPT !.num_tokens = Cardinality(DOMAIN self.all_tokens),
                      !.attrs = @ \cup {"num_tokens"}]
    ELSE self

RECURSIVE SumCell(_, _, _)
SumCell(rows, t, f) ==
    IF rows = <<>> THEN 0
    ELSE (IF Head(rows)[1] = t /\ Head(rows)[2] = f THEN Head(rows)[3] ELSE 0)
         + SumCell(Tail(rows), t, f)

\* sp.csr_matrix((data, (row, col)), shape) followed by sum_duplicates()
csr_matrix(rows, nt, nd) ==
    [shape |-> <<nt, nd>>,
     data  |-> [p \in (0..(nt - 1)) \X (0..(nd - 1)) |-> SumCell(rows, p[1], p[2])]]

\* the constructor rejects an index outside the declared shape
FitsShape(rows, nt, nd) ==
    \A i \in DOMAIN rows : rows[i][1] < nt /\ rows[i][2] < nd

\* _compute_count_matrix (line 290)
_compute_count_matrix(self, fid) ==
    IF "count_matrix" \notin self.attrs
    THEN LET s1 == get_num_docs(get_num_tokens(self), fid)
         IN  IF FitsShape(s1.freq, s1.num_tokens, s1.num_docs)
             THEN [self |-> [s1 EXCEPT !.count_matrix =
                                 csr_matrix(s1.freq, s1.num_tokens, s1.num_docs),
                               !.attrs = @ \cup {"count_matrix"}],
                   err |-> "none"]
             ELSE [self |-> s1, err |-> "ValueError"]
    ELSE [self |-> self, err |-> "none"]

\* a vector that keeps only the tokens with a nonzero count
nonzero_doc_freqs(cnts) ==
    LET df(t) == Cardinality({f \in 0..(cnts.shape[2] - 1) : cnts.data[<<t, f>>] > 0})
        present == {t \in 0..(cnts.shape[1] - 1) : df(t) > 0}
    IN  [dim |-> IF cnts.shape[1] = 1 THEN 0 ELSE 1,
         v   |-> [t \in present |-> df(t)]]

\* binary.sum(1) squeezed: a one-row matrix gives a 0-d array
squeezed_doc_freqs(cnts) ==
    [dim |-> IF cnts.shape[1] = 1 THEN 0 ELSE 1,
     v   |-> [t \in 0..(cnts.shape[1] - 1) |->
                Cardinality({f \in 0..(cnts.shape[2] - 1) : cnts.data[<<t, f>>] > 0})]]

\* get_doc_freqs (line 283)
get_doc_freqs(self, cnts) ==
    IF "doc_freqs" \notin self.attrs
    THEN [self EXCEPT !.doc_freqs = squeezed_doc_freqs(cnts),
                      !.attrs = @ \cup {"doc_freqs"}]
    ELSE self

\* idfs.dot(tfs) with idfs = diags(clamped idf) and tfs = count_matrix.log1p()
weighted(cm, Ns) ==
    [shape |-> cm.shape,
     data  |-> [p \in DOMAIN cm.data |->
                  clamped_idf(cm.shape[2], Ns.v[p[1]]) * log1p(cm.data[p])]]

\* _compute_tfidf_from_count_matrix (line 303).  Arithmetic on a 0-d
\* doc_freqs gives a numpy scalar, and the item assignment of line 307 on a
\* scalar raises TypeError; a vector of another length than the matrix has
\* rows makes the product of line 310 raise ValueError.
_compute_tfidf_from_count_matrix(self, cm) ==
    IF "tfidfs" \notin self.attrs
    THEN LET s1 == get_doc_freqs(self, cm)
             Ns == s1.doc_freqs
         IN  IF Ns.dim = 0 THEN [self |-> s1, err |-> "TypeError"]
             ELSE IF DOMAIN Ns.v # 0..(cm.shape[1] - 1)
                  THEN [self |-> s1, err |-> "ValueError"]
             ELSE [self |-> [s1 EXCEPT !.tfidfs = weighted(cm, Ns),
                                       !.attrs = @ \cup {"tfidfs"}],
                   err |-> "none"]
    ELSE [self |-> self, err |-> "none"]

\* compute_tfidf (line 300)
compute_tfidf(self, fid) ==
    LET r == _compute_count_matrix(self, fid)
    IN  IF r.err # "none" THEN r
        ELSE _compute_tfidf_from_count_matrix(r.self, r.self.count_matrix)

\* ----------------------------------------------------------------- retrieve
\* wids = [self.token2id(token) for token in tokens] (line 123)
RECURSIVE wids_of(_, _, _)
wids_of(all, tokens, acc) ==
    IF tokens = <<>> THEN [all |-> all, wids |-> acc]
    ELSE LET r == token2id(all, Head(tokens), FALSE)
         IN  wids_of(r.all, Tail(tokens), Append(acc, r.id))

\* x comes before y in a descending sort of score
Before(score, low, x, y) ==
    \/ score[x] > score[y]
    \/ score[x] = score[y] /\ (IF low THEN x < y ELSE x > y)

\* np.argsort(-res.data): the members of S by descending score
RECURSIVE argsort_desc(_, _, _)
argsort_desc(S, score, low) ==
    IF S = {} THEN <<>>
    ELSE LET best == CHOOSE x \in S : \A y \in S \ {x} : Before(score, low, x, y)
         IN  <<best>> \o argsort_desc(S \ {best}, score, low)

\* the slice res.data[0:k] taken in place of the partition
argpartition_head_slice(S, score, k, low) ==
    LET o == SortedIds(S)
    IN  {o[i] : i \in 1..k}

\* np.argpartition(-res.data, k)[0:k]: k members of S, none scored below one left out
argpartition_head(S, score, k, low) ==
    LET o == argsort_desc(S, score, low)
    IN  {o[i] : i \in 1..k}

\* lines 139-145: the order in which the scored facts are yielded
top_k(S, score, max_results, low) ==
    IF Cardinality(S) <= max_results
    THEN argsort_desc(S, score, low)
    ELSE argsort_desc(argpartition_head(S, score, max_results, low), score, low)

\* the generator loop of lines 146-151: fetchall()[0] raises IndexError for a
\* fact the table does not hold, after the facts before it were yielded
RECURSIVE yield_facts(_, _, _)
yield_facts(doc_ids, table, acc) ==
    IF doc_ids = <<>> THEN [out |-> acc, err |-> "none"]
    ELSE IF Head(doc_ids) \notin DOMAIN table THEN [out |-> acc, err |-> "IndexError"]
    ELSE yield_facts(Tail(doc_ids), table, Append(acc, Head(doc_ids)))

NoScores == [f \in {} |-> 0]

\* what a retrieve call leaves behind: the object, the known tokens of the
\* query, the query vector (wids_unique -> data, line 132), the scores, the
\* facts yielded and the exception
Finished(self, tokens, qvec, res, out, err) ==
    [self |-> self, tokens |-> tokens, qvec |-> qvec, res |-> res, out |-> out,
     err |-> err]

\* lines 122-151 of retrieve: score the facts against the known tokens of
\* the query, select and yield.  out is the sequence of the fact ids whose
\* texts are yielded, res the nonzero scores (res.indices -> res.data).
rank(self, fid, table, tokens, max_results, low) ==
    LET c == compute_tfidf(self, fid) IN
    IF c.err # "none" THEN Finished(c.self, tokens, NoScores, NoScores, <<>>, c.err)
    ELSE
    LET w  == wids_of(c.self.all_tokens, tokens, <<>>)
        u  == unique_ids(w.wids)
        s0 == [c.self EXCEPT !.all_tokens = w.all]
        s1 == get_num_tokens(get_num_docs(s0, fid))
        Ns == s1.doc_freqs
    IN
    IF Ns.dim = 0 \/ \E i \in DOMAIN u.values : u.values[i] \notin DOMAIN Ns.v
    THEN Finished(s0, tokens, NoScores, NoScores, <<>>, "IndexError")
    ELSE IF \/ \E i \in DOMAIN u.values : u.values[i] >= s1.num_tokens
            \/ s1.num_tokens # s1.tfidfs.shape[1]
    THEN Finished(s1, tokens, NoScores, NoScores, <<>>, "ValueError")
    ELSE
    LET data == [i \in DOMAIN u.values |->
                    log1p(u.counts[i]) * clamped_idf(s1.num_docs, Ns.v[u.values[i]])]
        RECURSIVE dot(_, _)
        dot(i, f) == IF i > Len(u.values) THEN 0
                     ELSE data[i] * s1.tfidfs.data[<<u.values[i], f>>] + dot(i + 1, f)
        cols   == 0..(s1.tfidfs.shape[2] - 1)
        scored == {f \in cols : dot(1, f) # 0}
        res    == [f \in scored |-> dot(1, f)]
        y      == yield_facts(top_k(scored, res, max_results, low), table, <<>>)
        qvec   == [i \in SeqRange(u.values) |->
                     data[CHOOSE j \in DOMAIN u.values : u.values[j] = i]]
    IN  Finished(s1, tokens, qvec, res, y.out, y.err)

\* the query's tokens without the vocabulary filter
known_tokens_unfiltered(all, query) == tokenize(query)

\* line 119: the tokens of the query that the vocabulary knows
known_tokens(all, query) ==
    SelectSeq(tokenize(query), LAMBDA t : t \in DOMAIN all)

\* retrieve with the TF-IDF computation moved ahead of the emptiness test
retrieve_eager(self, fid, table, query, max_results, low) ==
    LET tokens == known_tokens(self.all_tokens, query)
        c == compute_tfidf(self, fid)
    IN  IF tokens = <<>> THEN Finished(c.self, tokens, NoScores, NoScores, <<>>, "none")
        ELSE rank(self, fid, table, tokens, max_results, low)

\* retrieve (line 118), the generator run to its end
retrieve(self, fid, table, query, max_results, low) ==
    LET tokens == known_tokens(self.all_tokens, query)
    IN  IF tokens = <<>> THEN Finished(self, tokens, NoScores, NoScores, <<>>, "none")
        ELSE rank(self, fid, table, tokens, max_results, low)

\* ---------------------------------------------------------------- ingestion
DelOrder == <<"tfidfs", "count_matrix", "doc_freqs", "num_docs", "num_tokens">>

\* del self.<name>
del_attr(self, name) ==
    LET s1 == [self EXCEPT !.attrs = @ \ {name}]
    IN  CASE name = "tfidfs"       -> [s1 EXCEPT !.tfidfs = NoMatrix]
          [] name = "count_matrix" -> [s1 EXCEPT !.count_matrix = NoMatrix]
          [] name = "doc_freqs"    -> [s1 EXCEPT !.doc_freqs = NoVector]
          [] name = "num_docs"     -> [s1 EXCEPT !.num_docs = 0]
          [] name = "num_tokens"   -> [s1 EXCEPT !.num_tokens = 0]

RECURSIVE del_all(_, _)
del_all(self, names) ==
    IF names = <<>> THEN [self |-> self, err |-> "none"]
    ELSE IF Head(names) \notin self.attrs THEN [self |-> self, err |-> "AttributeError"]
    ELSE del_all(del_attr(self, Head(names)), Tail(names))

\* the reset at the head of act (lines 242-247)
reset_tfidfs(self) ==
    IF "tfidfs" \in self.attrs THEN del_all(self, DelOrder)
    ELSE [self |-> self, err |-> "none"]

\* insert_fact_without_id with the store's error swallowed
insert_fact_without_id_swallow(fid, table, text, ok) ==
    LET new_fact_id == fid
    IN  IF ok /\ new_fact_id \notin DOMAIN table
        THEN [fid |-> fid + 1, table |-> table @@ (new_fact_id :> text),
              id |-> new_fact_id, err |-> "none"]
        ELSE [fid |-> fid + 1, table |-> table,
              id |-> new_fact_id, err |-> "none"]

\* insert_fact_without_id (line 258), both locks taken and released inside:
\* the id is drawn first, the INSERT fails when the store refuses it (ok is
\* FALSE) or the primary key exists, and the transaction then rolls back.
insert_fact_without_id(fid, table, text, ok) ==
    LET new_fact_id == fid
    IN  IF ok /\ new_fact_id \notin DOMAIN table
        THEN [fid |-> fid + 1, table |-> table @@ (new_fact_id :> text),
              id |-> new_fact_id, err |-> "none"]
        ELSE [fid |-> fid + 1, table |-> table,
              id |-> new_fact_id, err |-> "sqlite3.Error"]

\* process_act recording the triples before the insert is known to have succeeded
process_act_unguarded(self, fid, table, text, ok) ==
    LET ins == insert_fact_without_id(fid, table, text, ok)
        st  == record_tokens([all |-> self.all_tokens, freq |-> self.freq],
                             unique(tokenize(text)), 1, ins.id)
    IN  [self |-> [self EXCEPT !.all_tokens = st.all, !.freq = st.freq],
         fid |-> ins.fid, table |-> ins.table, err |-> ins.err]

\* process_act (line 270)
process_act(self, fid, table, text, ok) ==
    LET ins == insert_fact_without_id(fid, table, text, ok)
        st  == record_tokens([all |-> self.all_tokens, freq |-> self.freq],
                             unique(tokenize(text)), 1, ins.id)
    IN  IF ins.err # "none"
        THEN [self |-> self, fid |-> ins.fid, table |-> ins.table, err |-> ins.err]
        ELSE [self |-> [self EXCEPT !.all_tokens = st.all, !.freq = st.freq],
              fid |-> ins.fid, table |-> ins.table, err |-> "none"]

\* what the host can put in self.observation
Observations == {[text |-> t] : t \in Texts} \cup {[episode_done |-> TRUE]}

NoCall == [valid |-> FALSE, repeat |-> FALSE, query |-> <<>>, max_results |-> 0,
           tokens |-> <<>>, qvec |-> NoScores, res |-> NoScores, out |-> <<>>,
           err |-> "none"]

Idle(a) == pc[a] = "idle"

mergeVars == <<comm_queues, sent, outbox, process_data_finished, finished_cnt,
               child_token_map, queue_ind, num_queues, merge_base>>
cacheVars == <<attrs, count_matrix, doc_freqs, tfidfs, num_docs, num_tokens>>
LocksFree == fact_id_lock = NoOne /\ db_lock = NoOne

\* act (line 240) as one step of an agent that nobody interleaves with
Act(a, observation, ok) ==
    /\ Idle(a)
    /\ LocksFree
    /\ last' = [last EXCEPT ![a] = NoCall]
    /\ LET r == reset_tfidfs(Self(a)) IN
       IF r.err # "none"
       THEN /\ Store(a, r.self)
            /\ raised' = [raised EXCEPT ![a] = r.err]
            /\ UNCHANGED <<fact_id, db, returned>>
       ELSE IF "text" \notin DOMAIN observation
       THEN /\ Store(a, r.self)
            /\ raised' = [raised EXCEPT ![a] = "none"]
            /\ UNCHANGED <<fact_id, db, returned>>
       ELSE /\ fact_id < MaxFacts
            /\ LET p == process_act([r.self EXCEPT !.cnt = @ + 1], fact_id, db,
                                    observation.text, ok)
               IN  /\ Store(a, p.self)
                   /\ fact_id' = p.fid
                   /\ db' = p.table
                   /\ returned' = Append(returned, fact_id)
                   /\ raised' = [raised EXCEPT ![a] = p.err]
    /\ UNCHANGED <<fact_id_lock, db_lock, tie_low, token_file, retriever_file,
                   pc, cur_id, fact>>
    /\ UNCHANGED mergeVars

\* a whole retrieve call (line 118), the generator run to its end
Retrieve(a, query, max_results) ==
    /\ Idle(a)
    /\ \E r \in {retrieve(Self(a), fact_id, db, query, max_results, tie_low)} :
           /\ Store(a, r.self)
           /\ raised' = [raised EXCEPT ![a] = r.err]
           /\ last' = [last EXCEPT ![a] =
                         [valid |-> TRUE,
                          repeat |-> /\ last[a].valid
                                     /\ last[a].query = query
                                     /\ last[a].max_results = max_results,
                          query |-> query, max_results |-> max_results,
                          tokens |-> r.tokens, qvec |-> r.qvec, res |-> r.res,
                          out |-> r.out,
                          err |-> r.err]]
    /\ UNCHANGED <<fact_id, fact_id_lock, db_lock, db, tie_low, token_file,
                   retriever_file, returned, pc, cur_id, fact>>
    /\ UNCHANGED mergeVars

\* the body of save (lines 237-238)
save(a) ==
    LET r == _compute_count_matrix(Self(a), fact_id)
    IN  /\ Store(a, r.self)
        /\ raised' = [raised EXCEPT ![a] = r.err]
        /\ token_file' = <<all_tokens[a]>>
        /\ retriever_file' = IF r.err = "none" THEN <<r.self.count_matrix>>
                             ELSE retriever_file

\* save (line 236) called by the host
Save(a) ==
    /\ Idle(a)
    /\ save(a)
    /\ UNCHANGED <<fact_id, fact_id_lock, db_lock, db, tie_low, last, returned,
                   pc, cur_id, fact>>
    /\ UNCHANGED mergeVars

\* load (line 228): nothing happens without a saved matrix; otherwise the
\* saved vocabulary and matrix replace the agent's own, the two sizes are
\* read off the matrix and the TF-IDF matrix is computed from it unless one
\* is cached
load(self, tokens_saved, matrix_saved) ==
    IF matrix_saved = <<>> THEN [self |-> self, err |-> "none"]
    ELSE IF tokens_saved = <<>> THEN [self |-> self, err |-> "FileNotFoundError"]
    ELSE LET cm == matrix_saved[1]
             s1 == [self EXCEPT !.all_tokens = tokens_saved[1],
                                !.count_matrix = cm,
                                !.num_tokens = cm.shape[1],
                                !.num_docs = cm.shape[2],
                                !.attrs = @ \cup {"count_matrix", "num_tokens",
                                                  "num_docs"}]
         IN  _compute_tfidf_from_count_matrix(s1, cm)

\* the object __init__ has built when it calls load (lines 86-92)
NewAgent ==
    [all_tokens |-> <<>>, freq |-> <<>>, cnt |-> 0, attrs |-> {},
     count_matrix |-> NoMatrix, doc_freqs |-> NoVector, tfidfs |-> NoMatrix,
     num_docs |-> 0, num_tokens |-> 0]

vars == <<fact_id, fact_id_lock, db_lock, db, all_tokens, freq, cnt, attrs,
          count_matrix, doc_freqs, tfidfs, num_docs, num_tokens, tie_low,
          raised, last, token_file, retriever_file, returned, pc, cur_id, fact,
          comm_queues, sent, outbox, process_data_finished, finished_cnt,
          child_token_map, queue_ind, num_queues, merge_base>>

\* __init__ (line 74) of the master, n calls of share (line 153) and __init__
\* of the n copies; no saved index to load (line 229), and a newly created
\* document table (line 220)
Constructed(n) ==
    /\ num_queues = n
    /\ fact_id = 0
    /\ fact_id_lock = NoOne
    /\ db_lock = NoOne
    /\ db = <<>>
    /\ all_tokens = [a \in Agents |-> <<>>]
    /\ freq = [a \in Agents |-> <<>>]
    /\ cnt = [a \in Agents |-> 0]
    /\ attrs = [a \in Agents |-> {}]
    /\ count_matrix = [a \in Agents |-> NoMatrix]
    /\ doc_freqs = [a \in Agents |-> NoVector]
    /\ tfidfs = [a \in Agents |-> NoMatrix]
    /\ num_docs = [a \in Agents |-> 0]
    /\ num_tokens = [a \in Agents |-> 0]
    /\ tie_low \in BOOLEAN
    /\ raised = [a \in Agents |-> "none"]
    /\ last = [a \in Agents |-> NoCall]
    /\ token_file = <<>>
    /\ retriever_file = <<>>
    /\ returned = <<>>
    /\ pc = [a \in Agents |-> "idle"]
    /\ cur_id = [a \in Agents |-> 0]
    /\ fact = [a \in Agents |-> <<>>]
    /\ comm_queues = [w \in Workers |-> <<>>]
    /\ sent = [w \in Workers |-> <<>>]
    /\ outbox = [w \in Workers |-> <<>>]
    /\ process_data_finished = [w \in Workers |-> FALSE]
    /\ finished_cnt = 0
    /\ child_token_map = [w \in Workers |-> <<>>]
    /\ queue_ind = 0
    /\ merge_base = 0

\* the host has made all the copies it is going to make
Init == Constructed(NumWorkers)

\* one agent on its own: the host feeds it observations, queries it and saves
ActStep == \E o \in Observations, ok \in BOOLEAN : Act(Master, o, ok)
RetrieveStep == \E q \in Queries, k \in 1..MaxResults : Retrieve(Master, q, k)
SaveStep == Save(Master)

NextAgent == ActStep \/ RetrieveStep \/ SaveStep
SpecAgent == Init /\ [][NextAgent]_vars

\* facts that share tokens, so that a token can be in every fact, in most of
\* them or in few, and the queries that ask for such tokens
ScoreTexts == {<<"a", "b">>, <<"b">>, <<"b", "c", "c">>}
ScoreQueries == {<<"b">>, <<"a", "b", "b">>, <<"c", "z">>}

ScoreActStep == \E t \in ScoreTexts, ok \in BOOLEAN : Act(Master, [text |-> t], ok)
ScoreRetrieveStep == \E q \in ScoreQueries : Retrieve(Master, q, MaxResults)

NextScore == ScoreActStep \/ ScoreRetrieveStep \/ SaveStep
SpecScore == Init /\ [][NextScore]_vars

\* ------------------------------------------------ act, statement by statement
\* The agents are separate processes; what they share is the counter with its
\* lock, the write lock and the table.  pc[a] is the statement a is about to
\* execute.

\* ids that are drawn or about to be drawn: the bound on the counter
Drawing == {a \in Agents : pc[a] \in {"acquire_id", "read_id", "incr_id"}}

\* act up to the call of new_fact_id (lines 240-255, 271, 259)
BeginAct(a, observation) ==
    /\ Idle(a)
    /\ last' = [last EXCEPT ![a] = NoCall]
    /\ LET r == reset_tfidfs(Self(a)) IN
       IF r.err # "none"
       THEN /\ Store(a, r.self)
            /\ raised' = [raised EXCEPT ![a] = r.err]
            /\ UNCHANGED <<pc, fact>>
       ELSE IF "text" \notin DOMAIN observation
       THEN /\ Store(a, r.self)
            /\ raised' = [raised EXCEPT ![a] = "none"]
            /\ UNCHANGED <<pc, fact>>
       ELSE /\ fact_id + Cardinality(Drawing) < MaxFacts
            /\ Store(a, [r.self EXCEPT !.cnt = @ + 1])
            /\ raised' = [raised EXCEPT ![a] = "none"]
            /\ fact' = [fact EXCEPT ![a] = observation.text]
            /\ pc' = [pc EXCEPT ![a] = "acquire_id"]
    /\ UNCHANGED <<fact_id, fact_id_lock, db_lock, db, tie_low, token_file,
                   retriever_file, returned, cur_id>>
    /\ UNCHANGED mergeVars

\* a step of agent a that moves it to statement next and touches only the shared state
Goto(a, next) ==
    /\ pc' = [pc EXCEPT ![a] = next]
    /\ UNCHANGED <<all_tokens, freq, cnt, tie_low, last, token_file, retriever_file,
                   fact>>
    /\ UNCHANGED cacheVars
    /\ UNCHANGED mergeVars

\* line 322 entered without waiting for the lock
AcquireIdLockUnguarded(a) ==
    /\ pc[a] = "acquire_id"
    /\ fact_id_lock' = a
    /\ Goto(a, "read_id")
    /\ UNCHANGED <<fact_id, db_lock, db, raised, returned, cur_id>>

\* with self.fact_id.get_lock(): (line 322)
AcquireIdLock(a) ==
    /\ pc[a] = "acquire_id"
    /\ fact_id_lock = NoOne
    /\ fact_id_lock' = a
    /\ Goto(a, "read_id")
    /\ UNCHANGED <<fact_id, db_lock, db, raised, returned, cur_id>>

\* cur_id = self.fact_id.value (line 323)
ReadId(a) ==
    /\ pc[a] = "read_id"
    /\ cur_id' = [cur_id EXCEPT ![a] = fact_id]
    /\ Goto(a, "incr_id")
    /\ UNCHANGED <<fact_id, fact_id_lock, db_lock, db, raised, returned>>

\* self.fact_id.value += 1 (line 324)
IncrId(a) ==
    /\ pc[a] = "incr_id"
    /\ fact_id' = fact_id + 1
    /\ Goto(a, "release_id")
    /\ UNCHANGED <<fact_id_lock, db_lock, db, raised, returned, cur_id>>

\* leaving the with block of new_fact_id
ReleaseIdLock(a) ==
    /\ pc[a] = "release_id"
    /\ fact_id_lock' = NoOne
    /\ Goto(a, "return_id")
    /\ UNCHANGED <<fact_id, db_lock, db, raised, returned, cur_id>>

\* return cur_id (line 325)
ReturnId(a) ==
    /\ pc[a] = "return_id"
    /\ returned' = Append(returned, cur_id[a])
    /\ Goto(a, "acquire_db")
    /\ UNCHANGED <<fact_id, fact_id_lock, db_lock, db, raised, cur_id>>

\* line 260 entered without waiting for the lock
AcquireDbLockUnguarded(a) ==
    /\ pc[a] = "acquire_db"
    /\ db_lock' = a
    /\ Goto(a, "insert")
    /\ UNCHANGED <<fact_id, fact_id_lock, db, raised, returned, cur_id>>

\* with self.db_lock: (line 260)
AcquireDbLock(a) ==
    /\ pc[a] = "acquire_db"
    /\ db_lock = NoOne
    /\ db_lock' = a
    /\ Goto(a, "insert")
    /\ UNCHANGED <<fact_id, fact_id_lock, db, raised, returned, cur_id>>

\* the INSERT inside its transaction (lines 261-262): it fails when the store
\* refuses it or the primary key exists, and is then rolled back
Insert(a, ok) ==
    /\ pc[a] = "insert"
    /\ IF ok /\ cur_id[a] \notin DOMAIN db
       THEN /\ db' = db @@ (cur_id[a] :> fact[a])
            /\ Goto(a, "release_db")
       ELSE /\ db' = db
            /\ Goto(a, "release_db_raising")
    /\ UNCHANGED <<fact_id, fact_id_lock, db_lock, raised, returned, cur_id>>

\* the write lock given back on the normal path only
ReleaseDbLockLeaky(a) ==
    /\ pc[a] \in {"release_db", "release_db_raising"}
    /\ IF pc[a] = "release_db"
       THEN /\ db_lock' = NoOne
            /\ Goto(a, "tokenize")
            /\ UNCHANGED raised
       ELSE /\ db_lock' = db_lock
            /\ Goto(a, "idle")
            /\ raised' = [raised EXCEPT ![a] = "sqlite3.Error"]
    /\ UNCHANGED <<fact_id, fact_id_lock, db, returned, cur_id>>

\* leaving the with block of insert_fact_without_id, normally or by the exception
ReleaseDbLock(a) ==
    /\ pc[a] \in {"release_db", "release_db_raising"}
    /\ db_lock' = NoOne
    /\ IF pc[a] = "release_db"
       THEN /\ Goto(a, "tokenize")
            /\ UNCHANGED raised
       ELSE /\ Goto(a, "idle")
            /\ raised' = [raised EXCEPT ![a] = "sqlite3.Error"]
    /\ UNCHANGED <<fact_id, fact_id_lock, db, returned, cur_id>>

\* lines 272-276: the triples of the fact, then act returns
Tokenize(a) ==
    /\ pc[a] = "tokenize"
    /\ LET st == record_tokens([all |-> all_tokens[a], freq |-> freq[a]],
                               unique(tokenize(fact[a])), 1, cur_id[a])
       IN  /\ all_tokens' = [all_tokens EXCEPT ![a] = st.all]
           /\ freq' = [freq EXCEPT ![a] = st.freq]
    /\ pc' = [pc EXCEPT ![a] = "idle"]
    /\ UNCHANGED <<fact_id, fact_id_lock, db_lock, db, cnt, tie_low, raised, last,
                   token_file, retriever_file, returned, cur_id, fact>>
    /\ UNCHANGED cacheVars
    /\ UNCHANGED mergeVars

\* the interleaving of the processes does not depend on what the facts say
IngestObservations == {[text |-> <<"the", "b", "b">>], [episode_done |-> TRUE]}
InitIngest == Init /\ tie_low

BeginActStep == \E a \in Agents, o \in IngestObservations : BeginAct(a, o)
AcquireIdLockStep == \E a \in Agents : AcquireIdLock(a)
ReadIdStep == \E a \in Agents : ReadId(a)
IncrIdStep == \E a \in Agents : IncrId(a)
ReleaseIdLockStep == \E a \in Agents : ReleaseIdLock(a)
ReturnIdStep == \E a \in Agents : ReturnId(a)
AcquireDbLockStep == \E a \in Agents : AcquireDbLock(a)
InsertStep == \E a \in Agents, ok \in BOOLEAN : Insert(a, ok)
ReleaseDbLockStep == \E a \in Agents : ReleaseDbLock(a)
TokenizeStep == \E a \in Agents : Tokenize(a)

NextIngest ==
    \/ BeginActStep \/ AcquireIdLockStep \/ ReadIdStep \/ IncrIdStep
    \/ ReleaseIdLockStep \/ ReturnIdStep \/ AcquireDbLockStep \/ InsertStep
    \/ ReleaseDbLockStep \/ TokenizeStep
SpecIngest == InitIngest /\ [][NextIngest]_vars

\* a step of agent a inside the act it has begun
Proceed(a) ==
    \/ AcquireIdLock(a) \/ ReadId(a) \/ IncrId(a) \/ ReleaseIdLock(a) \/ ReturnId(a)
    \/ AcquireDbLock(a) \/ (\E ok \in BOOLEAN : Insert(a, ok)) \/ ReleaseDbLock(a)
    \/ Tokenize(a)

\* the same processes under a fair scheduler, each agent ingesting at most
\* FairActs observations: an agent whose next step stays possible takes it
FairActs == 1
FairObservations == {[text |-> <<"the", "b", "b">>]}
FairBeginActStep ==
    \E a \in Agents, o \in FairObservations : cnt[a] < FairActs /\ BeginAct(a, o)

NextIngestFair ==
    \/ FairBeginActStep \/ AcquireIdLockStep \/ ReadIdStep \/ IncrIdStep
    \/ ReleaseIdLockStep \/ ReturnIdStep \/ AcquireDbLockStep \/ InsertStep
    \/ ReleaseDbLockStep \/ TokenizeStep
SpecIngestFair ==
    /\ InitIngest
    /\ [][NextIngestFair]_vars
    /\ \A a \in Agents : WF_vars(Proceed(a))

\* ------------------------------------------------------- shutdown and merge
IsEOD(data) == Len(data) = 1 /\ data[1] = END_OF_DATA

\* the worker's shutdown with the two loops in the other order
shutdown_msgs_freqs_first(self) == self.freq \o items(self.all_tokens) \o <<<<END_OF_DATA>>>>

\* what the worker branch of shutdown puts on comm_queue (lines 166-175)
shutdown_msgs(self) == items(self.all_tokens) \o self.freq \o <<<<END_OF_DATA>>>>

\* shutdown of a worker up to its first put (lines 163-165)
ShutdownWorker(w) ==
    /\ Idle(w)
    /\ outbox' = [outbox EXCEPT ![w] = shutdown_msgs(Self(w))]
    /\ pc' = [pc EXCEPT ![w] = "sending"]
    /\ UNCHANGED <<fact_id, fact_id_lock, db_lock, db, all_tokens, freq, cnt, tie_low,
                   raised, last, token_file, retriever_file, returned, cur_id, fact,
                   comm_queues, sent, process_data_finished, finished_cnt,
                   child_token_map, queue_ind, num_queues, merge_base>>
    /\ UNCHANGED cacheVars

\* one self.comm_queue.put (lines 167, 170, 175)
Put(w) ==
    /\ pc[w] = "sending"
    /\ comm_queues' = [comm_queues EXCEPT ![w] = Append(@, Head(outbox[w]))]
    /\ sent' = [sent EXCEPT ![w] = Append(@, Head(outbox[w]))]
    /\ outbox' = [outbox EXCEPT ![w] = Tail(@)]
    /\ pc' = [pc EXCEPT ![w] = IF Tail(outbox[w]) = <<>> THEN "done" ELSE "sending"]
    /\ UNCHANGED <<fact_id, fact_id_lock, db_lock, db, all_tokens, freq, cnt, tie_low,
                   raised, last, token_file, retriever_file, returned, cur_id, fact,
                   process_data_finished, finished_cnt, child_token_map, queue_ind,
                   num_queues, merge_base>>
    /\ UNCHANGED cacheVars

\* the master branch of shutdown up to the loop of process_child_data
\* (lines 179-182, 186-187); queue queue_ind belongs to worker queue_ind + 1
ShutdownMaster ==
    /\ Idle(Master)
    /\ process_data_finished' = [w \in Workers |-> FALSE]
    /\ finished_cnt' = 0
    /\ child_token_map' = [w \in Workers |-> <<>>]
    /\ queue_ind' = 0
    /\ merge_base' = Len(freq[Master])
    /\ pc' = [pc EXCEPT ![Master] = IF num_queues = 0 THEN "save" ELSE "merge"]
    /\ UNCHANGED <<fact_id, fact_id_lock, db_lock, db, all_tokens, freq, cnt, tie_low,
                   raised, last, token_file, retriever_file, returned, cur_id, fact,
                   comm_queues, sent, outbox, num_queues>>
    /\ UNCHANGED cacheVars

\* the master's merge state as a record
MergeState ==
    [all |-> all_tokens[Master], freq |-> freq[Master],
     finished |-> process_data_finished, finished_cnt |-> finished_cnt,
     map |-> child_token_map, err |-> "none"]

\* _process_data with the triple's local token id taken for the global one
_process_data_untranslated(m, data, w) ==
    IF IsEOD(data)
    THEN [m EXCEPT !.finished[w] = TRUE, !.finished_cnt = @ + 1]
    ELSE IF Len(data) = 2
    THEN LET r == token2id(m.all, data[1], FALSE)
         IN  [m EXCEPT !.all = r.all, !.map[w] = (data[2] :> r.id) @@ @]
    ELSE IF Len(data) = 3
    THEN IF data[1] \notin DOMAIN m.map[w] THEN [m EXCEPT !.err = "KeyError"]
         ELSE LET st == new_freq([all |-> m.all, freq |-> m.freq],
                                 data[1], TRUE, data[2], data[3])
              IN  [m EXCEPT !.all = st.all, !.freq = st.freq]
    ELSE [m EXCEPT !.err = "RuntimeError"]

\* _process_data skipping what it cannot translate or parse
_process_data_lenient(m, data, w) ==
    IF IsEOD(data)
    THEN [m EXCEPT !.finished[w] = TRUE, !.finished_cnt = @ + 1]
    ELSE IF Len(data) = 2
    THEN LET r == token2id(m.all, data[1], FALSE)
         IN  [m EXCEPT !.all = r.all, !.map[w] = (data[2] :> r.id) @@ @]
    ELSE IF Len(data) = 3
    THEN IF data[1] \notin DOMAIN m.map[w] THEN m
         ELSE LET st == new_freq([all |-> m.all, freq |-> m.freq],
                                 m.map[w][data[1]], TRUE, data[2], data[3])
              IN  [m EXCEPT !.all = st.all, !.freq = st.freq]
    ELSE m

\* _process_data filing the translation under the global id instead of the local one
_process_data_swapped(m, data, w) ==
    IF IsEOD(data)
    THEN [m EXCEPT !.finished[w] = TRUE, !.finished_cnt = @ + 1]
    ELSE IF Len(data) = 2
    THEN LET r == token2id(m.all, data[1], FALSE)
         IN  [m EXCEPT !.all = r.all, !.map[w] = (r.id :> data[2]) @@ @]
    ELSE IF Len(data) = 3
    THEN IF data[1] \notin DOMAIN m.map[w] THEN [m EXCEPT !.err = "KeyError"]
         ELSE LET st == new_freq([all |-> m.all, freq |-> m.freq],
                                 m.map[w][data[1]], TRUE, data[2], data[3])
              IN  [m EXCEPT !.all = st.all, !.freq = st.freq]
    ELSE [m EXCEPT !.err = "RuntimeError"]

\* _process_data (line 191) on the message data read from worker w's queue
_process_data(m, data, w) ==
    IF IsEOD(data)
    THEN [m EXCEPT !.finished[w] = TRUE, !.finished_cnt = @ + 1]
    ELSE IF Len(data) = 2
    THEN LET r == token2id(m.all, data[1], FALSE)
         IN  [m EXCEPT !.all = r.all, !.map[w] = (data[2] :> r.id) @@ @]
    ELSE IF Len(data) = 3
    THEN IF data[1] \notin DOMAIN m.map[w] THEN [m EXCEPT !.err = "KeyError"]
         ELSE LET st == new_freq([all |-> m.all, freq |-> m.freq],
                                 m.map[w][data[1]], TRUE, data[2], data[3])
              IN  [m EXCEPT !.all = st.all, !.freq = st.freq]
    ELSE [m EXCEPT !.err = "RuntimeError"]

\* the loop of process_child_data left as soon as one queue has ended
AdvanceAny(done) ==
    IF queue_ind + 1 < num_queues
    THEN /\ queue_ind' = queue_ind + 1
         /\ pc' = pc
    ELSE /\ queue_ind' = 0
         /\ pc' = [pc EXCEPT ![Master] = IF done >= 1 THEN "save" ELSE "merge"]

\* the for loop moves on (line 188); after the last queue the while
\* condition of line 187 is tested with the count of ended queues done
Advance(done) ==
    IF queue_ind + 1 < num_queues
    THEN /\ queue_ind' = queue_ind + 1
         /\ pc' = pc
    ELSE /\ queue_ind' = 0
         /\ pc' = [pc EXCEPT ![Master] = IF done = num_queues THEN "save" ELSE "merge"]

\* one await self._process_data(queue_ind) (lines 189, 191-210): a queue that
\* has ended is passed over, otherwise get() blocks until a message is there
ProcessData ==
    /\ pc[Master] = "merge"
    /\ LET w == queue_ind + 1 IN
       IF process_data_finished[w]
       THEN /\ Advance(finished_cnt)
            /\ UNCHANGED <<all_tokens, freq, raised, comm_queues,
                           process_data_finished, finished_cnt, child_token_map>>
       ELSE /\ comm_queues[w] # <<>>
            /\ comm_queues' = [comm_queues EXCEPT ![w] = Tail(@)]
            /\ LET m == _process_data(MergeState, Head(comm_queues[w]), w) IN
               /\ all_tokens' = [all_tokens EXCEPT ![Master] = m.all]
               /\ freq' = [freq EXCEPT ![Master] = m.freq]
               /\ process_data_finished' = m.finished
               /\ finished_cnt' = m.finished_cnt
               /\ child_token_map' = m.map
               /\ raised' = [raised EXCEPT ![Master] = m.err]
               /\ IF m.err = "none" THEN Advance(m.finished_cnt)
                  ELSE /\ pc' = [pc EXCEPT ![Master] = "failed"]
                       /\ UNCHANGED queue_ind
    /\ UNCHANGED <<fact_id, fact_id_lock, db_lock, db, cnt, tie_low, last, token_file,
                   retriever_file, returned, cur_id, fact, sent, outbox, num_queues,
                   merge_base>>
    /\ UNCHANGED cacheVars

\* self.save() at the end of the master's shutdown (line 183)
SaveMerged ==
    /\ pc[Master] = "save"
    /\ save(Master)
    /\ pc' = [pc EXCEPT ![Master] =
                IF _compute_count_matrix(Self(Master), fact_id).err = "none"
                THEN "done" ELSE "failed"]
    /\ UNCHANGED <<fact_id, fact_id_lock, db_lock, db, tie_low, last, returned,
                   cur_id, fact>>
    /\ UNCHANGED mergeVars

\* the agents ingest, the workers shut down, the master merges and saves
MergeObservations == {[text |-> <<"the", "b", "b">>], [text |-> <<"c">>]}
InitMerge == Init /\ tie_low

IngestStep == \E a \in Agents, o \in MergeObservations, ok \in BOOLEAN : Act(a, o, ok)
ShutdownWorkerStep == \E w \in Workers : ShutdownWorker(w)
PutStep == \E w \in Workers : Put(w)

NextMerge ==
    \/ IngestStep \/ ShutdownWorkerStep \/ PutStep
    \/ ShutdownMaster \/ ProcessData \/ SaveMerged
SpecMerge == InitMerge /\ [][NextMerge]_vars

\* a worker that does not keep to the protocol: anything may arrive on a queue
WireMessages ==
    {<<"b", 0>>, <<"c", 1>>, <<0, 0, 1>>, <<1, 0, 2>>, <<END_OF_DATA>>,
     <<"x">>, <<0, 0, 1, 0>>}

\* number of messages that have arrived on the queues so far
TotalSent == Cardinality({p \in Workers \X (1..MaxSent) : p[2] <= Len(sent[p[1]])})

Arrive(w, data) ==
    /\ TotalSent < MaxSent
    /\ comm_queues' = [comm_queues EXCEPT ![w] = Append(@, data)]
    /\ sent' = [sent EXCEPT ![w] = Append(@, data)]
    /\ UNCHANGED <<fact_id, fact_id_lock, db_lock, db, all_tokens, freq, cnt, tie_low,
                   raised, last, token_file, retriever_file, returned, pc, cur_id,
                   fact, outbox, process_data_finished, finished_cnt,
                   child_token_map, queue_ind, num_queues, merge_base>>
    /\ UNCHANGED cacheVars

ArriveStep == \E w \in Workers, data \in WireMessages : Arrive(w, data)

NextProtocol == ArriveStep \/ ShutdownMaster \/ ProcessData \/ SaveMerged
SpecProtocol == InitMerge /\ [][NextProtocol]_vars

\* the host has called share any number of times from none to NumWorkers; the
\* agents ingest, the workers shut down, the master shuts down.  A process
\* that is running goes on running: a worker that has begun its shutdown
\* makes its next put (put does not wait on the unbounded Queue), the master
\* reads the message its get() is waiting for once it is there, and saves.
InitTerminate == (\E n \in 0..NumWorkers : Constructed(n)) /\ tie_low
TerminateObservations == {[text |-> <<"the", "b", "b">>]}

TerminateIngestStep ==
    \E a \in 0..num_queues, o \in TerminateObservations : Act(a, o, TRUE)
TerminateShutdownWorkerStep == \E w \in 1..num_queues : ShutdownWorker(w)

NextTerminate ==
    \/ TerminateIngestStep \/ TerminateShutdownWorkerStep \/ PutStep
    \/ ShutdownMaster \/ ProcessData \/ SaveMerged
SpecTerminate ==
    /\ InitTerminate
    /\ [][NextTerminate]_vars
    /\ \A w \in Workers : WF_vars(Put(w))
    /\ WF_vars(ProcessData)
    /\ WF_vars(SaveMerged)

\* the merge of SpecMerge by a master that has saved, queried or loaded before
HistoryQueries == {<<"b", "c", "c">>}
HistoryRetrieveStep == \E q \in HistoryQueries : Retrieve(Master, q, MaxResults)

\* an earlier run has ingested one fact and saved: the files and the table
\* it left behind
SavedTable == (0 :> <<"c", "b", "c">>)
SavedTokens == ("b" :> 0) @@ ("c" :> 1)
SavedMatrix == csr_matrix(<<<<0, 0, 1>>, <<1, 0, 2>>>>, 2, 1)

\* __init__ of the master and of its copies over what the earlier run left:
\* the table exists (line 213), every agent loads the saved index (line 93),
\* the fact-id counter is a new Value('i', 0) (line 100)
Loaded(n) ==
    LET r == load(NewAgent, <<SavedTokens>>, <<SavedMatrix>>) IN
    /\ r.err = "none"
    /\ fact_id = 0
    /\ fact_id_lock = NoOne
    /\ db_lock = NoOne
    /\ db = SavedTable
    /\ all_tokens = [a \in Agents |-> r.self.all_tokens]
    /\ freq = [a \in Agents |-> r.self.freq]
    /\ cnt = [a \in Agents |-> r.self.cnt]
    /\ attrs = [a \in Agents |-> r.self.attrs]
    /\ count_matrix = [a \in Agents |-> r.self.count_matrix]
    /\ doc_freqs = [a \in Agents |-> r.self.doc_freqs]
    /\ tfidfs = [a \in Agents |-> r.self.tfidfs]
    /\ num_docs = [a \in Agents |-> r.self.num_docs]
    /\ num_tokens = [a \in Agents |-> r.self.num_tokens]
    /\ tie_low = TRUE
    /\ raised = [a \in Agents |-> "none"]
    /\ last = [a \in Agents |-> NoCall]
    /\ token_file = <<SavedTokens>>
    /\ retriever_file = <<SavedMatrix>>
    /\ returned = <<>>
    /\ pc = [a \in Agents |-> "idle"]
    /\ cur_id = [a \in Agents |-> 0]
    /\ fact = [a \in Agents |-> <<>>]
    /\ comm_queues = [w \in Workers |-> <<>>]
    /\ sent = [w \in Workers |-> <<>>]
    /\ outbox = [w \in Workers |-> <<>>]
    /\ process_data_finished = [w \in Workers |-> FALSE]
    /\ finished_cnt = 0
    /\ child_token_map = [w \in Workers |-> <<>>]
    /\ queue_ind = 0
    /\ num_queues = n
    /\ merge_base = 0

InitLoaded == Loaded(NumWorkers)

InitHistory == InitMerge \/ InitLoaded

HistoryObservations == {[text |-> <<"c", "b", "c">>]}
HistoryIngestStep == \E a \in Agents, o \in HistoryObservations : Act(a, o, TRUE)

NextHistory ==
    \/ HistoryIngestStep \/ ShutdownWorkerStep \/ PutStep
    \/ ShutdownMaster \/ ProcessData \/ SaveMerged
    \/ SaveStep \/ HistoryRetrieveStep
SpecHistory == InitHistory /\ [][NextHistory]_vars

\* the master ingests on its own, the workers' messages arrive (a vocabulary
\* announcement need not be followed by a triple for its token), the host
\* shuts the master down once and goes on to query it
AnnounceMessages == {<<"z", 0>>, <<END_OF_DATA>>}
AnnounceQueries == {<<"z", "the">>}

MasterActStep == \E o \in MergeObservations : Act(Master, o, TRUE)
AnnounceStep == \E w \in Workers, data \in AnnounceMessages : Arrive(w, data)
AnnounceRetrieveStep == \E q \in AnnounceQueries : Retrieve(Master, q, MaxResults)
ShutdownOnce == token_file = <<>> /\ ShutdownMaster

\* shutdown returns to the host (line 183 has completed)
ShutdownReturns ==
    /\ pc[Master] = "done"
    /\ pc' = [pc EXCEPT ![Master] = "idle"]
    /\ UNCHANGED <<fact_id, fact_id_lock, db_lock, db, all_tokens, freq, cnt, tie_low,
                   raised, last, token_file, retriever_file, returned, cur_id, fact>>
    /\ UNCHANGED cacheVars
    /\ UNCHANGED mergeVars

NextAnnounce ==
    \/ MasterActStep \/ AnnounceStep \/ ShutdownOnce \/ ProcessData \/ SaveMerged
    \/ ShutdownReturns \/ AnnounceRetrieveStep
SpecAnnounce == InitMerge /\ [][NextAnnounce]_vars

\* an agent of a new or of a loaded index under any order of act, retrieve,
\* save and shutdown calls: the master has called share() up to CacheQueues
\* times and only the copies it has made exist; a copy ingests and shuts
\* down, the master's shutdown merges what the copies sent and saves
CacheQueues == 1
CacheObservations == {[text |-> <<"c">>], [text |-> <<"c", "b", "c">>], [episode_done |-> TRUE]}
CacheQueries == {<<"b", "c", "c">>}

InitCache == \E n \in 0..CacheQueues : (Constructed(n) /\ tie_low) \/ Loaded(n)

CacheActStep == \E o \in CacheObservations, ok \in BOOLEAN : Act(Master, o, ok)
CacheWorkerActStep == \E w \in 1..num_queues, o \in HistoryObservations : Act(w, o, TRUE)
CacheRetrieveStep == \E q \in CacheQueries : Retrieve(Master, q, MaxResults)

NextCache ==
    \/ CacheActStep \/ CacheWorkerActStep \/ CacheRetrieveStep \/ SaveStep
    \/ TerminateShutdownWorkerStep \/ PutStep
    \/ ShutdownMaster \/ ProcessData \/ SaveMerged \/ ShutdownReturns
SpecCache == InitCache /\ [][NextCache]_vars

\* ============================================================== properties
NoRepeats(q) == \A i, j \in DOMAIN q : i # j => q[i] # q[j]

\* agents inside new_fact_id, between taking the lock and returning
InNewFactId == {a \in Agents : pc[a] \in {"read_id", "incr_id", "release_id", "return_id"}}

\* C1: whatever the interleaving of the agents, new_fact_id never returns an
\* id twice, the id a call is about to return is the value the counter had
\* before that call's increment, and when no call is under way the n ids
\* returned so far are exactly 0..n-1.
C1_UniqueDenseIds ==
    /\ NoRepeats(returned)
    /\ \A a \in Agents : pc[a] = "release_id" => cur_id[a] = fact_id - 1
    /\ InNewFactId = {} => SeqRange(returned) = 0..(Len(returned) - 1)

\* two calls by different agents overlapped: the later id was returned first
C1_Witness ==
    /\ Len(returned) >= 2
    /\ returned[1] > returned[2]
    /\ InNewFactId = {}

IsVocab(data) == Len(data) = 2
IsTriple(data) == Len(data) = 3

\* the token that local id lid denotes in worker w's vocabulary
TokenOf(w, lid) == CHOOSE t \in DOMAIN all_tokens[w] : all_tokens[w][t] = lid

\* a triple of worker w with its token id replaced by the master's id for that token
Translated(w, row) == <<all_tokens[Master][TokenOf(w, row[1])], row[2], row[3]>>

\* the translations of the triples the workers 1..n sent, worker after worker
RECURSIVE TranslatedUpTo(_)
TranslatedUpTo(n) ==
    IF n = 0 THEN <<>>
    ELSE LET rows == SelectSeq(sent[n], IsTriple)
         IN  TranslatedUpTo(n - 1) \o [i \in DOMAIN rows |-> Translated(n, rows[i])]

\* what the merge appended to the master's own triples
Merged == SubSeq(freq[Master], merge_base + 1, Len(freq[Master]))
Own == SubSeq(freq[Master], 1, merge_base)

MergeComplete == pc[Master] \in {"save", "done"}

\* C2: when the merge is complete, the rows appended to the master's list are,
\* as a multiset, the triples the workers sent with the local token id
\* replaced by the master's id of the same token string; so the count matrix
\* assembled from the list has in every cell the sum of the master's own and
\* the workers' counts for that token and fact; and no fact id occurs in the
\* triples of two different workers.
C2_MergeCorrect ==
    MergeComplete =>
        LET all == TranslatedUpTo(NumWorkers)
            nt  == Cardinality(DOMAIN all_tokens[Master])
            cm  == csr_matrix(freq[Master], nt, fact_id)
        IN  /\ \A r \in SeqRange(Merged) \cup SeqRange(all) :
                   Count(Merged, r) = Count(all, r)
            /\ FitsShape(freq[Master], nt, fact_id)
            /\ \A p \in DOMAIN cm.data :
                   cm.data[p] = SumCell(Own, p[1], p[2]) + SumCell(all, p[1], p[2])
            /\ \A v, w \in Workers : \A i \in DOMAIN sent[v], j \in DOMAIN sent[w] :
                   (v # w /\ IsTriple(sent[v][i]) /\ IsTriple(sent[w][j]))
                       => sent[v][i][2] # sent[w][j][2]

\* a completed merge of triples from two workers, one of them with a local id
\* that is not the master's id for the token
C2_Witness ==
    /\ pc[Master] = "done"
    /\ \A w \in 1..2 : \E i \in DOMAIN sent[w] : IsTriple(sent[w][i])
    /\ \E w \in Workers : \E i \in DOMAIN sent[w] :
           IsTriple(sent[w][i]) /\ Translated(w, sent[w][i]) # sent[w][i]

\* C3: a worker puts nothing on its queue before its shutdown; in what it
\* puts no vocabulary message follows a triple, every vocabulary entry has
\* been put before the first triple, and END_OF_DATA is put once, last, with
\* the whole vocabulary and every triple before it.
C3_ChannelOrder ==
    \A w \in Workers :
        LET q == sent[w] IN
        /\ pc[w] \notin {"sending", "done"} => q = <<>>
        /\ \A i, j \in DOMAIN q : (i < j /\ IsTriple(q[i])) => ~IsVocab(q[j])
        /\ \A i \in DOMAIN q : IsEOD(q[i]) => (i = Len(q) /\ pc[w] = "done")
        /\ (\E i \in DOMAIN q : IsTriple(q[i]))
              => \A t \in DOMAIN all_tokens[w] :
                    \E j \in DOMAIN q : q[j] = <<t, all_tokens[w][t]>>
        /\ pc[w] = "done" =>
              /\ q # <<>> /\ IsEOD(q[Len(q)])
              /\ Len(SelectSeq(q, IsVocab)) = Cardinality(DOMAIN all_tokens[w])
              /\ SelectSeq(q, IsTriple) = freq[w]

\* a worker that has sent two vocabulary entries, two triples and the sentinel
C3_Witness ==
    \E w \in Workers :
        /\ pc[w] = "done"
        /\ Len(SelectSeq(sent[w], IsVocab)) = 2
        /\ Len(SelectSeq(sent[w], IsTriple)) = 2

\* the message is one the master cannot process for worker w
Offending(data, w) ==
    /\ ~IsEOD(data)
    /\ \/ Len(data) = 3 /\ data[1] \notin DOMAIN child_token_map[w]
       \/ Len(data) \notin {2, 3}

MergeFailed == pc[Master] = "failed" /\ raised[Master] \in {"KeyError", "RuntimeError"}

\* C8: when the master reads a triple whose local token id is not in that
\* worker's translation table, or a message that is not the sentinel and has
\* neither two nor three elements, the merge ends with an exception and the
\* master's triple list stays as it was; after that the master reads no
\* message, its merge state does not change, and nothing is saved.
C8_ProtocolViolationIsFatal ==
    [][/\ (/\ ProcessData
           /\ ~process_data_finished[queue_ind + 1]
           /\ Offending(Head(comm_queues[queue_ind + 1]), queue_ind + 1))
          => (MergeFailed' /\ freq' = freq)
       /\ MergeFailed
          => /\ MergeFailed'
             /\ UNCHANGED <<freq, all_tokens, child_token_map, process_data_finished,
                            finished_cnt>>
             /\ \A w \in Workers : Len(comm_queues'[w]) >= Len(comm_queues[w])
             /\ token_file' = <<>>
             /\ retriever_file' = <<>>]_vars

\* the merge stopped on an untranslatable triple after it had merged vocabulary
C8_Witness ==
    /\ MergeFailed
    /\ raised[Master] = "KeyError"
    /\ \E w \in Workers : child_token_map[w] # <<>> /\ comm_queues[w] # <<>>

\* C4: an act whose fact-store insert fails (an id is drawn, the table stays
\* as it was) ends with an exception and leaves the agent's triple buffer and
\* vocabulary exactly as they were.
C4_FailedInsertRecordsNothing ==
    [][(fact_id' = fact_id + 1 /\ db' = db)
        => (/\ raised'[Master] # "none"
            /\ freq' = freq
            /\ all_tokens' = all_tokens)]_vars

\* a failed insert after facts were recorded: an id was drawn but not stored
C4_Witness ==
    /\ raised[Master] = "sqlite3.Error"
    /\ freq[Master] # <<>>
    /\ Len(returned) > Cardinality(DOMAIN db)

\* the step is the retrieve call of agent a that last' describes
RetrievedLast(a) ==
    /\ last'[a].valid
    /\ Retrieve(a, last'[a].query, last'[a].max_results)

\* the count matrix agent a holds, if it holds one, has a cell for every
\* triple recorded so far, holding the sum of the counts recorded for it
Current(a) ==
    "count_matrix" \in attrs[a] =>
        \A i \in DOMAIN freq[a] :
            LET p == <<freq[a][i][1], freq[a][i][2]>> IN
            /\ p \in DOMAIN count_matrix[a].data
            /\ count_matrix[a].data[p] = SumCell(freq[a], p[1], p[2])

\* C5: whatever acts came before, a save, or a retrieve that gets to score
\* the facts, works on a count matrix built from all the triples recorded
\* so far: no matrix cached before an ingest is used after it.
C5_NoStaleCacheUsed ==
    [][(SaveStep \/ (last'[Master].tokens # <<>> /\ RetrievedLast(Master)))
        => Current(Master)']_vars

\* C6: a retrieve scores and yields only facts that are in the table, and
\* yields no fact twice.
C6_YieldsIngestedOnce ==
    \A a \in Agents :
        last[a].valid =>
            /\ SeqRange(last[a].out) \subseteq DOMAIN db
            /\ DOMAIN last[a].res \subseteq DOMAIN db
            /\ NoRepeats(last[a].out)

\* a retrieve that yielded two facts while an id whose insert failed is missing
C6_Witness ==
    /\ last[Master].valid
    /\ Len(last[Master].out) >= 2
    /\ Len(returned) > Cardinality(DOMAIN db)

Min(x, y) == IF x <= y THEN x ELSE y

\* C7: a retrieve with n nonzero-scoring facts yields min(n, max_results) of
\* them, in descending score order, and none of the facts it leaves out
\* scores higher than one it yields.
C7_TopK ==
    \A a \in Agents :
        LET r == last[a] IN
        (r.valid /\ r.err = "none") =>
            /\ Len(r.out) = Min(Cardinality(DOMAIN r.res), r.max_results)
            /\ SeqRange(r.out) \subseteq DOMAIN r.res
            /\ NoRepeats(r.out)
            /\ \A i \in 1..(Len(r.out) - 1) : r.res[r.out[i]] >= r.res[r.out[i + 1]]
            /\ \A f \in DOMAIN r.res \ SeqRange(r.out) :
                   \A i \in DOMAIN r.out : r.res[r.out[i]] >= r.res[f]

\* max_results + 1 facts score, and the one left out scores strictly lower
C7_Witness ==
    LET r == last[Master] IN
    /\ r.valid /\ r.err = "none"
    /\ Cardinality(DOMAIN r.res) = r.max_results + 1
    /\ Len(r.out) = r.max_results
    /\ \E f \in DOMAIN r.res \ SeqRange(r.out) : r.res[f] < r.res[r.out[Len(r.out)]]

\* no token of the query is in agent a's vocabulary
NoKnownToken(a, q) ==
    \A i \in DOMAIN tokenize(q) : tokenize(q)[i] \notin DOMAIN all_tokens[a]

\* C9: a retrieve whose query has no token in the vocabulary yields nothing,
\* raises nothing, and leaves the vocabulary, the triple buffer and every
\* cached attribute as they were.
C9_UnknownQueryIsEmpty ==
    [][(/\ last'[Master].valid
        /\ NoKnownToken(Master, last'[Master].query)
        /\ RetrievedLast(Master))
          => /\ last'[Master].out = <<>>
             /\ raised'[Master] = "none"
             /\ UNCHANGED <<all_tokens, freq, attrs, count_matrix, doc_freqs,
                            tfidfs, num_docs, num_tokens>>]_vars

\* an unknown-token query answered while facts are recorded and nothing is cached
C9_Witness ==
    /\ last[Master].valid
    /\ last[Master].tokens = <<>>
    /\ tokenize(last[Master].query) # <<>>
    /\ freq[Master] # <<>>
    /\ attrs[Master] = {}

\* C10: a retrieve with the arguments of the previous one, no act in between,
\* yields the same sequence and ends the same way; and a retrieve changes
\* neither the vocabulary, the triple buffer, the fact counter nor the table.
C10_RetrieveIdempotent ==
    [][/\ \A a \in Agents :
             (last[a].valid /\ last'[a].valid
                /\ last'[a].query = last[a].query
                /\ last'[a].max_results = last[a].max_results)
               => (last'[a].out = last[a].out /\ last'[a].err = last[a].err)
       /\ RetrievedLast(Master) => UNCHANGED <<all_tokens, freq, cnt, fact_id, db>>]_vars

\* the same query asked twice in a row, two facts yielded with equal scores
C10_Witness ==
    LET r == last[Master] IN
    /\ r.repeat
    /\ Len(r.out) = 2
    /\ r.res[r.out[1]] = r.res[r.out[2]]

\* number of facts that hold token t according to agent a's count matrix
DocFreq(a, t) ==
    Cardinality({f \in 0..(count_matrix[a].shape[2] - 1) :
                    count_matrix[a].data[<<t, f>>] > 0})

\* C11: in the TF-IDF matrix computed from a count matrix with at least one
\* fact no weight is negative, and the row of a token that occurs in every
\* fact is zero (its idf is 0); the query vector of a retrieve has no negative
\* entry either, and a zero entry for a token that occurs in every fact.
C11_IdfClamped ==
    \A a \in Agents :
        /\ ("tfidfs" \in attrs[a] /\ count_matrix[a].shape[2] >= 1) =>
               \A p \in DOMAIN tfidfs[a].data :
                   /\ tfidfs[a].data[p] >= 0
                   /\ DocFreq(a, p[1]) = count_matrix[a].shape[2]
                         => tfidfs[a].data[p] = 0
        /\ last[a].valid =>
               \A t \in DOMAIN last[a].qvec :
                   /\ last[a].qvec[t] >= 0
                   /\ DocFreq(a, t) = num_docs[a] => last[a].qvec[t] = 0

\* three facts; one queried token is in all of them, the other in one only
\* and weighs in the query vector and in the matrix
C11_Witness ==
    /\ "tfidfs" \in attrs[Master]
    /\ count_matrix[Master].shape[2] = 3
    /\ last[Master].valid
    /\ \E t, u \in DOMAIN last[Master].qvec :
           /\ DocFreq(Master, t) = 3
           /\ last[Master].qvec[t] = 0
           /\ last[Master].qvec[u] > 0
           /\ \E f \in 0..2 : tfidfs[Master].data[<<u, f>>] > 0

\* C12 as stated: the document-frequency vector holds no token that occurs
\* in no fact, so it has no entry with the value zero.
C12_NoZeroEntry ==
    \A a \in Agents :
        "doc_freqs" \in attrs[a] =>
            \A t \in DOMAIN doc_freqs[a].v : doc_freqs[a].v[t] > 0

\* C12 amended: the document-frequency vector has one entry for every row of
\* the count matrix it was computed from, the number of facts whose cell in
\* that row is nonzero, which is zero for a token with no nonzero cell.
C12_EntryPerRow ==
    \A a \in Agents :
        "doc_freqs" \in attrs[a] =>
            /\ "count_matrix" \in attrs[a]
            /\ DOMAIN doc_freqs[a].v = 0..(count_matrix[a].shape[1] - 1)
            /\ \A t \in DOMAIN doc_freqs[a].v :
                   /\ doc_freqs[a].v[t] = DocFreq(a, t)
                   /\ (\A f \in 0..(count_matrix[a].shape[2] - 1) :
                          count_matrix[a].data[<<t, f>>] = 0) => doc_freqs[a].v[t] = 0

\* a token announced by a worker without a triple has the entry zero beside
\* two tokens that occur in facts
C12_Witness ==
    /\ "doc_freqs" \in attrs[Master]
    /\ "z" \in DOMAIN all_tokens[Master]
    /\ all_tokens[Master]["z"] \in DOMAIN doc_freqs[Master].v
    /\ doc_freqs[Master].v[all_tokens[Master]["z"]] = 0
    /\ Cardinality({t \in DOMAIN doc_freqs[Master].v : doc_freqs[Master].v[t] > 0}) = 2

\* the master, about to serve queue k of the round-robin, gets to read a
\* message of worker j by its own steps alone: it passes the queues that have
\* ended, reads from those that hold a message, and stops at get() (line
\* 194) on one that is empty; n bounds the queues still to visit
RECURSIVE ReadsFrom(_, _, _)
ReadsFrom(k, j, n) ==
    IF n = 0 THEN FALSE
    ELSE LET w == k + 1 IN
         IF process_data_finished[w] THEN ReadsFrom((k + 1) % num_queues, j, n - 1)
         ELSE IF comm_queues[w] = <<>> THEN FALSE
         ELSE IF w = j THEN TRUE
         ELSE ReadsFrom((k + 1) % num_queues, j, n - 1)

\* C13: while the master merges, whenever the queue of a worker i is empty
\* and has not ended and the queue of a worker j holds unread messages, the
\* master gets to read j's messages without a message from i arriving first.
C13_SlowWorkerDoesNotStall ==
    \A i, j \in Workers :
        (/\ pc[Master] = "merge"
         /\ comm_queues[i] = <<>> /\ ~process_data_finished[i]
         /\ comm_queues[j] # <<>> /\ ~process_data_finished[j])
            => ReadsFrom(queue_ind, j, num_queues)

\* C14: when the master's shutdown is done, the saved count matrix is the one
\* assembled from the master's whole triple list (its own triples and the
\* translated triples of the workers), with one row per token of the
\* vocabulary and one column per fact id drawn, whatever the master did
\* before the shutdown.
C14_SavedMatrixIsMerged ==
    pc[Master] = "done" =>
        retriever_file =
            <<csr_matrix(freq[Master], Cardinality(DOMAIN all_tokens[Master]), fact_id)>>

\* C15: while the master merges what the workers' shutdowns have put, a
\* triple at the head of a queue that has not ended finds its local token id
\* in that worker's translation table, mapped to the master's id of the same
\* token; so the merge never ends with the missing-translation error.
C15_TranslationComplete ==
    /\ raised[Master] # "KeyError"
    /\ pc[Master] # "failed"
    /\ \A w \in Workers :
          (/\ pc[Master] = "merge"
           /\ ~process_data_finished[w]
           /\ comm_queues[w] # <<>>
           /\ IsTriple(Head(comm_queues[w])))
             => LET lid == Head(comm_queues[w])[1] IN
                /\ lid \in DOMAIN child_token_map[w]
                /\ child_token_map[w][lid] = all_tokens[Master][TokenOf(w, lid)]

\* the master has merged triples and is about to read one whose local token
\* id is not the global one, while the other worker is still sending
C15_Witness ==
    /\ pc[Master] = "merge"
    /\ Merged # <<>>
    /\ \E w, v \in Workers :
          /\ comm_queues[w] # <<>>
          /\ IsTriple(Head(comm_queues[w]))
          /\ child_token_map[w][Head(comm_queues[w])[1]] # Head(comm_queues[w])[1]
          /\ v # w /\ pc[v] = "sending"

\* process_child_data has returned
Terminated == pc[Master] \in {"save", "done"}

\* every queue has ended: its sentinel has been read, and with it everything
\* the worker put before it
AllEnded ==
    /\ finished_cnt = num_queues
    /\ \A w \in 1..num_queues :
          /\ process_data_finished[w]
          /\ comm_queues[w] = <<>>
          /\ sent[w] # <<>> /\ IsEOD(sent[w][Len(sent[w])])

\* C16: the loop of process_child_data is left only when the sentinel of
\* every queue has been read, and with it all that was put before it; with
\* no queue at all the master's shutdown goes straight on to save; and if
\* every worker at some time runs its shutdown, a master that has begun to
\* merge gets out of the loop.
C16_CoordinatorTerminates ==
    /\ [](Terminated => AllEnded)
    /\ [][(ShutdownMaster /\ num_queues = 0) => Terminated']_vars
    /\ (\A w \in Workers : <>(w > num_queues \/ pc[w] # "idle"))
          => [](pc[Master] = "merge" => <>Terminated)

\* the master is done after reading vocabulary, triples and the sentinel of
\* every one of NumWorkers workers
C16_Witness ==
    /\ pc[Master] = "done"
    /\ num_queues = NumWorkers
    /\ \A w \in Workers : Len(sent[w]) >= 3

\* the ids of vocabulary all are 0..size-1, each the id of one token
Bijective(all) ==
    /\ {all[t] : t \in DOMAIN all} = 0..(Cardinality(DOMAIN all) - 1)
    /\ \A t, u \in DOMAIN all : all[t] = all[u] => t = u

\* C17: the vocabulary of every agent, the master's during the merge
\* included, maps its tokens one-to-one onto 0..size-1; a step never
\* removes a token or changes its id; the tokens a step adds get the ids
\* from the size before the step upwards, a single new token that size.
C17_VocabularyBijection ==
    /\ [](\A a \in Agents : Bijective(all_tokens[a]))
    /\ [][\A a \in Agents :
            LET old  == all_tokens[a]
                new  == all_tokens'[a]
                size == Cardinality(DOMAIN old)
                added == DOMAIN new \ DOMAIN old
            IN  /\ \A t \in DOMAIN old : t \in DOMAIN new /\ new[t] = old[t]
                /\ {new[t] : t \in added} = size..(size + Cardinality(added) - 1)
                /\ \A t \in added : Cardinality(added) = 1 => new[t] = size]_vars

\* the master has interned a worker's token during the merge under an id
\* that is not the worker's id for it
C17_Witness ==
    /\ pc[Master] = "merge"
    /\ Cardinality(DOMAIN all_tokens[Master]) = 2
    /\ \E w \in Workers : \E t \in DOMAIN all_tokens[w] :
          /\ t \in DOMAIN all_tokens[Master]
          /\ all_tokens[Master][t] = 1
          /\ all_tokens[w][t] = 0
          /\ child_token_map[w] # <<>>

\* agents inside the with block of insert_fact_without_id
InDbBlock == {a \in Agents : pc[a] \in {"insert", "release_db", "release_db_raising"}}

\* C18: at most one agent is inside the block that holds the INSERT; the
\* agent that is there holds db_lock and does not hold the lock of the
\* fact-id counter; and the table changes only in a step of the agent that
\* holds db_lock.
C18_InsertUnderWriteLock ==
    /\ [](/\ Cardinality(InDbBlock) <= 1
          /\ \A a \in InDbBlock : db_lock = a /\ fact_id_lock # a
          /\ InDbBlock = {} => db_lock = NoOne)
    /\ [][db' # db => (db_lock \in Agents /\ pc[db_lock] = "insert"
                        /\ pc'[db_lock] = "release_db")]_vars

\* one agent is at the INSERT while another is inside new_fact_id and a
\* third waits for the write lock: the two locks are held by different agents
C18_Witness ==
    \E a, b, c \in Agents :
        /\ pc[a] = "insert" /\ db_lock = a
        /\ pc[b] = "incr_id" /\ fact_id_lock = b
        /\ pc[c] = "acquire_db"

\* C19: no agent holds the counter's lock and the write lock together; an
\* agent holds the counter's lock only inside new_fact_id and the write lock
\* only inside the with block of the insert, so not after a failed insert
\* either; whenever an act is under way some agent inside an act can take a
\* step; and under fair scheduling every act that has begun returns.
C19_LocksReleasedNoDeadlock ==
    /\ [](\A a \in Agents :
            /\ ~(fact_id_lock = a /\ db_lock = a)
            /\ fact_id_lock = a => pc[a] \in {"read_id", "incr_id", "release_id"}
            /\ db_lock = a => a \in InDbBlock)
    /\ []((\E a \in Agents : ~Idle(a)) => ENABLED (\E a \in Agents : Proceed(a)))
    /\ \A a \in Agents : [](~Idle(a) => <>Idle(a))

\* an insert has failed and its agent is back, and another agent has taken
\* the write lock since and is at its own insert
C19_Witness ==
    \E a, b \in Agents :
        /\ a # b
        /\ Idle(a) /\ raised[a] = "sqlite3.Error"
        /\ pc[b] = "insert" /\ db_lock = b
        /\ Cardinality(DOMAIN db) = 0
        /\ Len(returned) = 2 /\ returned[2] = cur_id[b]

\* C20: in every reachable state of every agent, whether it started empty or
\* loaded a saved index, and whatever acts, retrieves, saves and shutdowns
\* have run, a cached TF-IDF matrix comes with a cached count matrix,
\* document-frequency vector, fact count and token count; hence the five
\* deletions at the head of act never raise AttributeError.
C20_CachedTogether ==
    \A a \in Agents :
        /\ "tfidfs" \in attrs[a] => CacheAttrs \subseteq attrs[a]
        /\ raised[a] # "AttributeError"

\* the master loaded the saved index, which cached all five; an act of its
\* own has deleted them (the cached count matrix is no longer the loaded
\* one) and a retrieve after it has cached all five anew
C20_Witness ==
    /\ \A t \in DOMAIN SavedTokens :
          t \in DOMAIN all_tokens[Master] /\ all_tokens[Master][t] = SavedTokens[t]
    /\ 0 \in DOMAIN db /\ db[0] = SavedTable[0]
    /\ cnt[Master] >= 1
    /\ freq[Master] # <<>>
    /\ last[Master].valid
    /\ CacheAttrs \subseteq attrs[Master]
    /\ count_matrix[Master] # SavedMatrix
    /\ raised[Master] = "none"

====
